---- MODULE Spec2Model ----
(***************************************************************************)
(* A model of src/bin/batsmen.rs: the file is read, split into lines, each *)
(* line is parsed into a Batsman, the batsmen whose surname starts with    *)
(* 'C' are collected, sorted by descending runs and printed.               *)
(*                                                                         *)
(* Text is a sequence of one-character strings, so that splitting,         *)
(* trimming and number parsing work on characters as the code does.        *)
(***************************************************************************)
EXTENDS Integers, Sequences, FiniteSets

VARIABLES
  fileLines,   \* the lines written to the input file, as structures
  terminator,  \* the line terminator the file uses
  trailing,    \* whether the last line is followed by a terminator
  pc,          \* position of main
  contents,    \* the String read_to_string filled
  lines,       \* the lines contents.lines() yields
  pos,         \* how many of them the iterator has yielded
  item,        \* the Batsman the map closure returned, on its way to filter
  collected,   \* the Vec collect() is building
  batsmen,     \* the result of sorted
  stdout,      \* what println! wrote: a sequence of printed vectors
  diag         \* the panic message, "" while there is none

vars == <<fileLines, terminator, trailing, pc, contents, lines, pos, item,
          collected, batsmen, stdout, diag>>

----------------------------------------------------------------------------
(* Bounds of the checked input space. *)

MaxLines == 3
MaxGap == 2
MaxPad == 1
MaxFields == 4
MaxSortLen == 4
MaxRuns == 3

----------------------------------------------------------------------------
(* Characters and text. *)

SP == " "
COMMA == ","
LF == "\n"
CR == "\r"
TAB == "\t"

Digits == <<"0", "1", "2", "3", "4", "5", "6", "7", "8", "9">>

IsDigit(c) == \E i \in 1..10 : Digits[i] = c

DigitVal(c) == (CHOOSE i \in 1..10 : Digits[i] = c) - 1

\* char::is_whitespace, over the characters of the model
IsWhitespace(c) == c \in {SP, TAB, LF, CR}

RECURSIVE TrimStart(_)
TrimStart(s) ==
  IF s # <<>> /\ IsWhitespace(Head(s)) THEN TrimStart(Tail(s)) ELSE s

RECURSIVE TrimEnd(_)
TrimEnd(s) ==
  IF s # <<>> /\ IsWhitespace(s[Len(s)])
  THEN TrimEnd(SubSeq(s, 1, Len(s) - 1))
  ELSE s

\* str::trim
Trim(s) == TrimEnd(TrimStart(s))

\* str::split(sep) for a one-character separator: n separators give n + 1
\* pieces, the empty text gives one empty piece.
RECURSIVE SplitFrom(_, _, _)
SplitFrom(s, sep, cur) ==
  IF s = <<>> THEN <<cur>>
  ELSE IF Head(s) = sep THEN <<cur>> \o SplitFrom(Tail(s), sep, <<>>)
  ELSE SplitFrom(Tail(s), sep, Append(cur, Head(s)))

Split(s, sep) == SplitFrom(s, sep, <<>>)

StripCR(l) ==
  IF l # <<>> /\ l[Len(l)] = CR THEN SubSeq(l, 1, Len(l) - 1) ELSE l

\* str::lines with the final empty piece kept: a plain split on '\n'
LinesKeepLast(s) ==
  LET p == Split(s, LF) IN [i \in 1..Len(p) |-> StripCR(p[i])]

\* str::lines: pieces end at "\n" or "\r\n"; the piece after a final line
\* ending is not a line.
Lines(s) ==
  LET p == Split(s, LF)
      q == IF p[Len(p)] = <<>> THEN SubSeq(p, 1, Len(p) - 1) ELSE p
  IN [i \in 1..Len(q) |-> IF i < Len(p) THEN StripCR(q[i]) ELSE q[i]]

----------------------------------------------------------------------------
(* u32 and f32. *)

Pow2(n) == 2 ^ n

\* u32::from_str digit loop with checked_mul and checked_add: acc * 10 + d
\* overflows exactly when it exceeds 4294967295.  The model holds values
\* below 2^31 only; the overflow test itself is the 32-bit one.
RECURSIVE U32Digits(_, _)
U32Digits(s, acc) ==
  IF s = <<>> THEN [ok |-> TRUE, val |-> acc]
  ELSE IF ~IsDigit(Head(s)) THEN [ok |-> FALSE, val |-> 0]
  ELSE LET d == DigitVal(Head(s)) IN
       IF acc > 429496729 \/ (acc = 429496729 /\ d > 5)
       THEN [ok |-> FALSE, val |-> 0]
       ELSE U32Digits(Tail(s), acc * 10 + d)

\* str::parse::<u32>: an optional '+', then at least one digit
ParseU32(s) ==
  LET t == IF s # <<>> /\ Head(s) = "+" /\ Len(s) > 1 THEN Tail(s) ELSE s
  IN IF t = <<>> THEN [ok |-> FALSE, val |-> 0] ELSE U32Digits(t, 0)

\* The value of a run of decimal digits.
RECURSIVE DigitsVal(_, _)
DigitsVal(s, acc) ==
  IF s = <<>> THEN acc ELSE DigitsVal(Tail(s), acc * 10 + DigitVal(Head(s)))

AllDigits(s) == \A i \in 1..Len(s) : IsDigit(s[i])

\* The quotient num / den rounded to the nearest integer, ties to even.
RoundHalfEven(num, den) ==
  LET q == num \div den
      r == num % den
  IN IF 2 * r > den \/ (2 * r = den /\ q % 2 = 1) THEN q + 1 ELSE q

\* The binary exponent e and the scaled quotient num / den of a positive
\* value, with 2^23 <= num / den < 2^24 and value = (num / den) * 2^e.
RECURSIVE Normalize(_, _, _)
Normalize(num, den, e) ==
  IF num \div den >= Pow2(24) THEN Normalize(num, den * 2, e + 1)
  ELSE IF num \div den < Pow2(23) THEN Normalize(num * 2, den, e - 1)
  ELSE [num |-> num, den |-> den, e |-> e]

\* The f32 nearest to n / d (n >= 0, d > 0), as mantissa m < 2^24 and
\* exponent e with value m * 2^e: the result of a correctly rounded
\* decimal-to-binary conversion (round to nearest, ties to even).  Values in
\* the subnormal or overflow range of f32 are outside the model.
NearestF32(neg, n, d) ==
  IF n = 0 THEN [kind |-> "num", neg |-> neg, m |-> 0, e |-> 0]
  ELSE LET z == Normalize(n, d, 0)
           m == RoundHalfEven(z.num, z.den)
       IN IF m = Pow2(24)
          THEN [kind |-> "num", neg |-> neg, m |-> Pow2(23), e |-> z.e + 1]
          ELSE [kind |-> "num", neg |-> neg, m |-> m, e |-> z.e]

F32NaN == [kind |-> "nan", neg |-> FALSE, m |-> 0, e |-> 0]
F32Inf(neg) == [kind |-> "inf", neg |-> neg, m |-> 0, e |-> 0]

\* str::parse::<f32> on texts without an exponent part: an optional sign,
\* then "NaN", "inf", or digits with at most one '.' and at least one digit.
ParseF32(s) ==
  LET signed == s # <<>> /\ Head(s) \in {"+", "-"}
      neg == s # <<>> /\ Head(s) = "-"
      t == IF signed THEN Tail(s) ELSE s
      p == Split(t, ".")
      ip == p[1]
      fp == IF Len(p) = 2 THEN p[2] ELSE <<>>
  IN IF t = <<"N", "a", "N">> THEN [ok |-> TRUE, val |-> F32NaN]
     ELSE IF t = <<"i", "n", "f">> THEN [ok |-> TRUE, val |-> F32Inf(neg)]
     ELSE IF Len(p) > 2 \/ ~AllDigits(ip) \/ ~AllDigits(fp)
             \/ Len(ip) + Len(fp) = 0
     THEN [ok |-> FALSE, val |-> F32NaN]
     ELSE [ok |-> TRUE,
           val |-> NearestF32(neg, DigitsVal(ip \o fp, 0), 10 ^ Len(fp))]

\* An integral f32, NaN or an infinity: what Batsman.average holds.
NumAvg(v) == [kind |-> "num", val |-> v]
NaNAvg == [kind |-> "nan", val |-> 0]
InfAvg(neg) == [kind |-> "inf", val |-> IF neg THEN -1 ELSE 1]

\* The magnitude of a finite f32 with its fraction dropped.
TruncMagnitude(x) ==
  IF x.e >= 0 THEN x.m * Pow2(x.e)
  ELSE IF 0 - x.e >= 25 THEN 0
  ELSE x.m \div Pow2(0 - x.e)

\* A rounding that truncates, as f32::trunc does.
F32Trunc(x) ==
  IF x.kind = "nan" THEN NaNAvg
  ELSE IF x.kind = "inf" THEN InfAvg(x.neg)
  ELSE NumAvg(IF x.neg THEN 0 - TruncMagnitude(x) ELSE TruncMagnitude(x))

\* The magnitude of a finite f32 rounded to the nearest integer, a half
\* away from zero.
RoundMagnitude(x) ==
  IF x.e >= 0 THEN x.m * Pow2(x.e)
  ELSE IF 0 - x.e >= 25 THEN 0
  ELSE LET d == Pow2(0 - x.e)
           q == x.m \div d
           r == x.m % d
       IN IF 2 * r >= d THEN q + 1 ELSE q

\* f32::round: the nearest integer, half-way cases away from zero
F32Round(x) ==
  IF x.kind = "nan" THEN NaNAvg
  ELSE IF x.kind = "inf" THEN InfAvg(x.neg)
  ELSE NumAvg(IF x.neg THEN 0 - RoundMagnitude(x) ELSE RoundMagnitude(x))

Abs(n) == IF n < 0 THEN 0 - n ELSE n

\* approx's relative_eq! with its defaults epsilon = max_relative =
\* f32::EPSILON = 2^-23, on the values an average can hold.  Between two
\* integral values the difference is an integer, so it is within epsilon only
\* when it is 0, and it is within largest * 2^-23 when it is at most the
\* integer part of largest / 2^23.
RelativeEq(a, b) ==
  IF a.kind = "nan" \/ b.kind = "nan" THEN FALSE
  ELSE IF a.kind = "inf" \/ b.kind = "inf" THEN a = b
  ELSE \/ a.val = b.val
       \/ LET diff == Abs(a.val - b.val)
              largest == IF Abs(b.val) > Abs(a.val) THEN Abs(b.val) ELSE Abs(a.val)
          IN diff <= largest \div Pow2(23)

----------------------------------------------------------------------------
(* Batsman and its traits. *)

Batsman(i, s, r, a) == [initials |-> i, surname |-> s, runs |-> r, average |-> a]

\* u32::cmp
CmpU32(x, y) == IF x < y THEN "Less" ELSE IF x > y THEN "Greater" ELSE "Equal"

\* PartialEq::eq for Batsman
Eq(self, other) ==
  /\ self.initials = other.initials
  /\ self.surname = other.surname
  /\ self.runs = other.runs
  /\ RelativeEq(self.average, other.average)

\* Ord::cmp for Batsman
Cmp(self, other) == CmpU32(self.runs, other.runs)

\* PartialOrd::partial_cmp for Batsman: always Some
PartialCmp(self, other) == <<Cmp(self, other)>>

\* A comparator that sorts ascending.
AscendingCmp(lhs, rhs) == Cmp(lhs, rhs)

\* The closure main hands to sorted: |lhs, rhs| rhs.cmp(lhs)
DescendingCmp(lhs, rhs) == Cmp(rhs, lhs)

\* sorted: y = x.clone(); y.sort_by(cmp); y.  On a short slice sort_by is an
\* insertion sort: each element in turn moves left past every element it is
\* Less than, and stops at the first it is not.  The comparator closure is a
\* function on pairs of elements.
sorted(x, cmp) ==
  LET RECURSIVE InsertTail(_, _)
      InsertTail(y, e) ==
        IF y # <<>> /\ cmp[e, y[Len(y)]] = "Less"
        THEN Append(InsertTail(SubSeq(y, 1, Len(y) - 1), e), y[Len(y)])
        ELSE Append(y, e)
      RECURSIVE SortBy(_, _)
      SortBy(done, rest) ==
        IF rest = <<>> THEN done
        ELSE SortBy(InsertTail(done, Head(rest)), Tail(rest))
  IN SortBy(<<>>, x)

\* The filter closure with a test that ignores case.
StartsWithAnyC(b) == b.surname # <<>> /\ b.surname[1] \in {"C", "c"}

\* The filter closure: b.surname.chars().next() is Some('C')
StartsWithC(b) ==
  LET first == IF b.surname = <<>> THEN <<>> ELSE <<b.surname[1]>>
  IN first = <<"C">>

DiagIndex == "index out of bounds"
DiagRuns == "Expected second item to be an u32"
DiagAverage == "Expected third item to be an f32"

NoBatsman == Batsman(<<>>, <<>>, 0, NaNAvg)

\* l.split(",").map(|x| x.trim()), with missing fields taken as "0".
FieldsOrZero(l) ==
  LET p == Split(l, COMMA)
  IN [i \in 1..(IF Len(p) < 3 THEN 3 ELSE Len(p)) |->
        IF i <= Len(p) THEN Trim(p[i]) ELSE <<"0">>]

\* l.split(",").map(|x| x.trim()).collect()
Fields(l) ==
  LET p == Split(l, COMMA) IN [i \in 1..Len(p) |-> Trim(p[i])]

\* The average of the Batsman literal: parse, round, or panic
AverageOf(text) ==
  LET a == ParseF32(text)
  IN IF a.ok THEN [panic |-> "", val |-> F32Round(a.val)]
     ELSE [panic |-> DiagAverage, val |-> NaNAvg]

\* The map closure with the average read before the runs.
ParseLineAverageFirst(l) ==
  LET v == Fields(l)
      name == Split(v[1], SP)
  IN IF Len(name) < 2 \/ Len(v) < 3 THEN [panic |-> DiagIndex, b |-> NoBatsman]
     ELSE IF AverageOf(v[3]).panic # ""
     THEN [panic |-> DiagAverage, b |-> NoBatsman]
     ELSE IF ~ParseU32(v[2]).ok THEN [panic |-> DiagRuns, b |-> NoBatsman]
     ELSE [panic |-> "",
           b |-> Batsman(name[1], name[2], ParseU32(v[2]).val, AverageOf(v[3]).val)]

\* The map closure: the fields of the Batsman literal are evaluated in the
\* order written, and the first panic ends the evaluation.
ParseLine(l) ==
  LET v == Fields(l)
      name == Split(v[1], SP)
  IN IF Len(name) < 2 THEN [panic |-> DiagIndex, b |-> NoBatsman]
     ELSE IF Len(v) < 2 THEN [panic |-> DiagIndex, b |-> NoBatsman]
     ELSE IF ~ParseU32(v[2]).ok THEN [panic |-> DiagRuns, b |-> NoBatsman]
     ELSE IF Len(v) < 3 THEN [panic |-> DiagIndex, b |-> NoBatsman]
     ELSE IF AverageOf(v[3]).panic # ""
     THEN [panic |-> AverageOf(v[3]).panic, b |-> NoBatsman]
     ELSE [panic |-> "",
           b |-> Batsman(name[1], name[2], ParseU32(v[2]).val, AverageOf(v[3]).val)]

----------------------------------------------------------------------------
(* The input files of the checked space.  A line is written from a
   structure: the name tokens, the number of spaces between them, the text
   of the runs and average fields with what each stands for, the number of
   comma-separated fields and the number of spaces around each field. *)

RunsText(t, ok, v) == [text |-> t, ok |-> ok, val |-> v]

AverageText(t, k, neg, n, d) == [text |-> t, kind |-> k, neg |-> neg, n |-> n, d |-> d]

\* Runs fields: the text, whether it is a u32, and the u32 it denotes.
RunsCases == {
  RunsText(<<"1", "2", "0">>, TRUE, 120),
  RunsText(<<"8", "0">>, TRUE, 80),
  RunsText(<<"1", "5", "0">>, TRUE, 150),
  RunsText(<<"9", "0">>, TRUE, 90),
  RunsText(<<"+", "7">>, TRUE, 7),
  RunsText(<<"0", "0", "7">>, TRUE, 7),
  RunsText(<<"a", "b", "c">>, FALSE, 0),
  RunsText(<<>>, FALSE, 0),
  RunsText(<<"-", "1">>, FALSE, 0),
  RunsText(<<"4", "2", "9", "4", "9", "6", "7", "2", "9", "6">>, FALSE, 0),
  RunsText(<<"1", ".", "5">>, FALSE, 0)
}

\* Average fields: the text and the decimal number n / d it denotes
\* ("dec"), or NaN, an infinity, or no number at all ("bad").
AverageCases == {
  AverageText(<<"4", "5", ".", "6">>, "dec", FALSE, 456, 10),
  AverageText(<<"3", "0", ".", "1">>, "dec", FALSE, 301, 10),
  AverageText(<<"5", "0", ".", "4">>, "dec", FALSE, 504, 10),
  AverageText(<<"2", "0", ".", "0">>, "dec", FALSE, 200, 10),
  AverageText(<<"3", "3", ".", "3">>, "dec", FALSE, 333, 10),
  AverageText(<<"2", ".", "4">>, "dec", FALSE, 24, 10),
  AverageText(<<"2", ".", "5">>, "dec", FALSE, 25, 10),
  AverageText(<<"-", "2", ".", "5">>, "dec", TRUE, 25, 10),
  AverageText(<<".", "5">>, "dec", FALSE, 5, 10),
  AverageText(<<"7", ".">>, "dec", FALSE, 7, 1),
  AverageText(<<"2", ".", "4", "9">>, "dec", FALSE, 249, 100),
  AverageText(<<"2", "6", "2", "1", "4", "3", ".", "4", "9">>, "dec", FALSE, 26214349, 100),
  AverageText(<<"1", "6", "7", "7", "7", "2", "1", "7">>, "dec", FALSE, 16777217, 1),
  AverageText(<<"8", "3", "8", "8", "6", "0", "8", ".", "5">>, "dec", FALSE, 83886085, 10),
  AverageText(<<"4", "1", "9", "4", "3", "0", "4", ".", "2", "6">>, "dec", FALSE, 419430426, 100),
  AverageText(<<"N", "a", "N">>, "nan", FALSE, 0, 1),
  AverageText(<<"i", "n", "f">>, "inf", FALSE, 0, 1),
  AverageText(<<"a", "b", "c">>, "bad", FALSE, 0, 1),
  AverageText(<<>>, "bad", FALSE, 0, 1),
  AverageText(<<"1", ".", "2", ".", "3">>, "bad", FALSE, 0, 1),
  AverageText(<<".">>, "bad", FALSE, 0, 1)
}

RunsCase(t) == CHOOSE r \in RunsCases : r.text = t
AverageCase(t) == CHOOSE a \in AverageCases : a.text = t

NameCases == {
  <<>>,
  <<<<"A", "B">>>>,
  <<<<"A", "B">>, <<"C", "l", "a", "r", "k", "e">>>>,
  <<<<"I", "J">>, <<"c", "l", "a", "r", "k", "e">>>>,
  <<<<"C", "D">>, <<"S", "m", "i", "t", "h">>>>,
  <<<<"A", "B">>, <<"C", "l", "a", "r", "k", "e">>, <<"J", "r">>>>
}

Line(tokens, gap, r, a, nFields, pad) ==
  [tokens |-> tokens, gap |-> gap, runs |-> r, average |-> a,
   nFields |-> nFields, pad |-> pad]

\* A line "<initials> <surname>,<runs>,<average>"
Plain(i, s, r, a) == Line(<<i, s>>, 1, RunsCase(r), AverageCase(a), 3, 0)

Clarke == Plain(<<"A", "B">>, <<"C", "l", "a", "r", "k", "e">>, <<"1", "2", "0">>, <<"4", "5", ".", "6">>)
Smith == Plain(<<"C", "D">>, <<"S", "m", "i", "t", "h">>, <<"8", "0">>, <<"3", "0", ".", "1">>)
Cook == Plain(<<"E", "F">>, <<"C", "o", "o", "k">>, <<"1", "5", "0">>, <<"5", "0", ".", "4">>)
Cullen == Plain(<<"G", "H">>, <<"C", "u", "l", "l", "e", "n">>, <<"1", "5", "0">>, <<"2", "0", ".", "0">>)
LowerClarke == Plain(<<"I", "J">>, <<"c", "l", "a", "r", "k", "e">>, <<"9", "0">>, <<"3", "3", ".", "3">>)
\* "KL  Cole,70,2.5": two spaces between the tokens
TwoSpaces ==
  Line(<<<<"K", "L">>, <<"C", "o", "l", "e">>>>, 2, RunsCase(<<"0", "0", "7">>), AverageCase(<<"2", ".", "5">>), 3, 0)
\* "AB,120,45.6"
NoSurname == Line(<<<<"A", "B">>>>, 1, RunsCase(<<"1", "2", "0">>), AverageCase(<<"4", "5", ".", "6">>), 3, 0)
\* "CD Smith,abc,30.1"
BadRuns == Plain(<<"C", "D">>, <<"S", "m", "i", "t", "h">>, <<"a", "b", "c">>, <<"3", "0", ".", "1">>)

MainPool == {Clarke, Smith, Cook, Cullen, LowerClarke, TwoSpaces, NoSurname, BadRuns}

\* The file of the end-to-end scenario.
ExampleFile == <<Clarke, Smith, Cook, Cullen>>

RichPool ==
  {Line(t, g, r, a, n, p) :
     t \in NameCases, g \in 1..MaxGap, r \in RunsCases, a \in AverageCases,
     n \in 1..MaxFields, p \in 0..MaxPad}

Spaces(n) == [i \in 1..n |-> SP]

RECURSIVE Join(_, _)
Join(parts, sep) ==
  IF parts = <<>> THEN <<>>
  ELSE IF Len(parts) = 1 THEN parts[1]
  ELSE parts[1] \o sep \o Join(Tail(parts), sep)

\* The text of a line.
Render(L) ==
  LET name == Join(L.tokens, Spaces(L.gap))
      all == [i \in 1..L.nFields |->
                IF i = 1 THEN name
                ELSE IF i = 2 THEN L.runs.text
                ELSE IF i = 3 THEN L.average.text
                ELSE <<"x">>]
  IN Join([i \in 1..L.nFields |-> Spaces(L.pad) \o all[i] \o Spaces(L.pad)],
          <<COMMA>>)

\* The text of a file.
FileText(ls, term, trail) ==
  Join([i \in 1..Len(ls) |-> Render(ls[i])], term)
    \o (IF trail THEN term ELSE <<>>)

SeqsUpTo(S, n) == UNION {[1..k -> S] : k \in 0..n}

----------------------------------------------------------------------------
(* main. *)

\* main before it reads the file named by its argument
InitWith(files, terms) ==
  /\ fileLines \in files
  /\ terminator \in terms
  /\ trailing \in (IF fileLines = <<>> THEN {FALSE} ELSE BOOLEAN)
  /\ pc = "read"
  /\ contents = <<>>
  /\ lines = <<>>
  /\ pos = 0
  /\ item = <<>>
  /\ collected = <<>>
  /\ batsmen = <<>>
  /\ stdout = <<>>
  /\ diag = ""

\* Files of up to MaxLines lines, and the file of the end-to-end scenario.
Init ==
  InitWith(SeqsUpTo(MainPool, MaxLines) \cup {ExampleFile}, {<<LF>>, <<CR, LF>>})

\* Files of one line, over every way of writing it.
InitParse == InitWith({<<L>> : L \in RichPool}, {<<LF>>})

\* read_to_string with a plain split in place of lines().
ReadKeepLast ==
  /\ pc = "read"
  /\ contents' = FileText(fileLines, terminator, trailing)
  /\ lines' = LinesKeepLast(contents')
  /\ pc' = "map"
  /\ UNCHANGED <<fileLines, terminator, trailing, pos, item, collected,
                 batsmen, stdout, diag>>

\* f.read_to_string(&mut contents), then contents.lines()
Read ==
  /\ pc = "read"
  /\ contents' = FileText(fileLines, terminator, trailing)
  /\ lines' = Lines(contents')
  /\ pc' = "map"
  /\ UNCHANGED <<fileLines, terminator, trailing, pos, item, collected,
                 batsmen, stdout, diag>>

\* The map closure returns a Batsman for the next line.
MapOk ==
  /\ pc = "map"
  /\ pos < Len(lines)
  /\ ParseLine(lines[pos + 1]).panic = ""
  /\ item' = <<ParseLine(lines[pos + 1]).b>>
  /\ pos' = pos + 1
  /\ pc' = "filter"
  /\ UNCHANGED <<fileLines, terminator, trailing, contents, lines, collected,
                 batsmen, stdout, diag>>

\* A map closure that skips a line it cannot parse.
MapSkips ==
  /\ pc = "map"
  /\ pos < Len(lines)
  /\ ParseLine(lines[pos + 1]).panic # ""
  /\ pos' = pos + 1
  /\ UNCHANGED <<fileLines, terminator, trailing, pc, contents, lines, item,
                 collected, batsmen, stdout, diag>>

\* The map closure panics on the next line: main ends there.
MapPanics ==
  /\ pc = "map"
  /\ pos < Len(lines)
  /\ ParseLine(lines[pos + 1]).panic # ""
  /\ diag' = ParseLine(lines[pos + 1]).panic
  /\ pos' = pos + 1
  /\ pc' = "panicked"
  /\ UNCHANGED <<fileLines, terminator, trailing, contents, lines, item,
                 collected, batsmen, stdout>>

\* The filter closure passes the Batsman on to collect().
FilterKeeps ==
  /\ pc = "filter"
  /\ StartsWithC(item[1])
  /\ collected' = Append(collected, item[1])
  /\ item' = <<>>
  /\ pc' = "map"
  /\ UNCHANGED <<fileLines, terminator, trailing, contents, lines, pos,
                 batsmen, stdout, diag>>

\* The filter closure drops the Batsman.
FilterDrops ==
  /\ pc = "filter"
  /\ ~StartsWithC(item[1])
  /\ item' = <<>>
  /\ pc' = "map"
  /\ UNCHANGED <<fileLines, terminator, trailing, contents, lines, pos,
                 collected, batsmen, stdout, diag>>

\* The lines are exhausted, and the vector is handed on as collected.
SortUnsorted ==
  /\ pc = "map"
  /\ pos = Len(lines)
  /\ batsmen' = collected
  /\ pc' = "print"
  /\ UNCHANGED <<fileLines, terminator, trailing, contents, lines, pos, item,
                 collected, stdout, diag>>

\* The lines are exhausted: sorted(collected, |lhs, rhs| rhs.cmp(lhs))
Sort ==
  /\ pc = "map"
  /\ pos = Len(lines)
  /\ LET elems == {collected[i] : i \in 1..Len(collected)}
     IN batsmen' = sorted(collected, [lhs \in elems, rhs \in elems |-> DescendingCmp(lhs, rhs)])
  /\ pc' = "print"
  /\ UNCHANGED <<fileLines, terminator, trailing, contents, lines, pos, item,
                 collected, stdout, diag>>

\* println!("{:?}", batsmen)
Println ==
  /\ pc = "print"
  /\ stdout' = Append(stdout, batsmen)
  /\ pc' = "done"
  /\ UNCHANGED <<fileLines, terminator, trailing, contents, lines, pos, item,
                 collected, batsmen, diag>>

Next == Read \/ MapOk \/ MapPanics \/ FilterKeeps \/ FilterDrops \/ Sort \/ Println

Spec == Init /\ [][Next]_vars

SpecParse == InitParse /\ [][Next]_vars

\* Vectors handed to sorted directly: every sequence of up to MaxSortLen
\* batsmen over MaxRuns values of runs, two batsmen for each value.
SortPool ==
  {Batsman(<<"A">>, <<"C", x>>, r, NumAvg(0)) : x \in {"a", "b"}, r \in 1..MaxRuns}

InitSort ==
  /\ fileLines = <<>>
  /\ terminator = <<LF>>
  /\ trailing = FALSE
  /\ pc = "map"
  /\ contents = <<>>
  /\ lines = <<>>
  /\ pos = 0
  /\ item = <<>>
  /\ collected \in SeqsUpTo(SortPool, MaxSortLen)
  /\ batsmen = <<>>
  /\ stdout = <<>>
  /\ diag = ""

NextSort == Sort \/ Println

SpecSort == InitSort /\ [][NextSort]_vars

----------------------------------------------------------------------------
(* What a written line stands for, read off its structure. *)

\* The line follows "<initials> <surname>,<runs>,<average>".
WellFormed(L) ==
  /\ Len(L.tokens) = 2
  /\ L.gap = 1
  /\ L.nFields = 3
  /\ L.runs.ok
  /\ L.average.kind = "dec"

AllValid(ls) == \A i \in 1..Len(ls) : WellFormed(ls[i])

\* The line has fewer than three comma fields, fewer than two name tokens,
\* or a runs or average field that is no number.
FailsToParse(L) ==
  \/ L.nFields < 3
  \/ Len(L.tokens) < 2
  \/ ~L.runs.ok
  \/ L.average.kind = "bad"

\* The integer nearest to the decimal n / d, a half away from zero.
NearestInteger(a) ==
  LET mag == (2 * a.n + a.d) \div (2 * a.d)
  IN IF a.neg THEN 0 - mag ELSE mag

\* The record a well-formed line stands for.
Written(L) ==
  Batsman(L.tokens[1], L.tokens[2], L.runs.val, NumAvg(NearestInteger(L.average)))

FirstIsC(text) == text # <<>> /\ text[1] = "C"

\* The place of x[i] among the elements of x by descending runs, elements of
\* equal runs in the order of x.
Rank(x, i) ==
  Cardinality({j \in 1..Len(x) :
                 \/ x[j].runs > x[i].runs
                 \/ (x[j].runs = x[i].runs /\ j < i)}) + 1

ByRank(x) == [k \in 1..Len(x) |-> x[CHOOSE i \in 1..Len(x) : Rank(x, i) = k]]

WithRuns(x, v) == LET Has(b) == b.runs = v IN SelectSeq(x, Has)

Count(x, b) == Cardinality({i \in 1..Len(x) : x[i] = b})

\* The first line of the file has gone through the map closure.
FirstLineMapped == pos = 1

----------------------------------------------------------------------------
(* The claims. *)

\* C1: sorted with the comparator rhs.cmp(lhs) returns a permutation of its
\* input in which runs never increase from one element to the next and in
\* which the elements of equal runs keep the order they had in the input.
C1_SortedIsStableDescending ==
  pc \in {"print", "done"} =>
    /\ Len(batsmen) = Len(collected)
    /\ \A i \in 1..Len(collected) : Count(batsmen, collected[i]) = Count(collected, collected[i])
    /\ \A k \in 1..(Len(batsmen) - 1) : batsmen[k].runs >= batsmen[k + 1].runs
    /\ \A i \in 1..Len(collected) :
         WithRuns(batsmen, collected[i].runs) = WithRuns(collected, collected[i].runs)

\* A vector of three or more batsmen, two of them different with equal
\* runs, has been sorted into another order.
C1_Witness ==
  /\ pc = "print"
  /\ Len(collected) >= 3
  /\ batsmen # collected
  /\ \E i, j \in 1..Len(collected) :
       i < j /\ collected[i].runs = collected[j].runs /\ collected[i] # collected[j]

\* C2: the filter stage keeps exactly the records whose surname starts with
\* the uppercase letter 'C' (lowercase 'c', any other character and the
\* empty surname are dropped), in the order in which the map closure
\* produced them.
C2_FilterKeepsExactlyC ==
  LET k == IF pc \in {"filter", "panicked"} THEN pos - 1 ELSE pos
      mapped == [i \in 1..k |-> ParseLine(lines[i]).b]
      Keep(b) == FirstIsC(b.surname)
  IN collected = SelectSeq(mapped, Keep)

\* A run has ended with two records kept and, among the records the map
\* closure produced, one with an empty surname or a surname in 'c' dropped.
C2_Witness ==
  /\ pc = "done"
  /\ Len(collected) = 2
  /\ \E i \in 1..Len(lines) :
       \/ ParseLine(lines[i]).b.surname = <<>>
       \/ ParseLine(lines[i]).b.surname[1] = "c"

\* C3: when a line of the file fails to parse, the run aborts and prints
\* nothing: the line is not skipped, and nothing is printed for the lines
\* before it, whatever the surname of the failing line.
C3_ParseFailureAborts ==
  (\E i \in 1..Len(fileLines) : FailsToParse(fileLines[i])) =>
    /\ stdout = <<>>
    /\ pc \notin {"print", "done"}
    /\ ~(pc = "map" /\ pos = Len(lines))

\* The run has panicked on "CD Smith,abc,30.1" after it collected a record
\* from an earlier line.
C3_Witness ==
  /\ pc = "panicked"
  /\ pos >= 2
  /\ fileLines[pos] = BadRuns
  /\ collected # <<>>
  /\ stdout = <<>>

\* C4: the initials and the surname of every record the map closure
\* returns are non-empty.
C4_NamesNeverEmpty ==
  item # <<>> => item[1].initials # <<>> /\ item[1].surname # <<>>

\* C5 as stated: a line with a number of comma fields other than three,
\* fewer or more, aborts the run.
C5_ExactlyThreeFields ==
  (FirstLineMapped /\ fileLines[1].nFields # 3) => pc = "panicked"

\* C5: a line with fewer than three comma fields aborts the run; a line with
\* more than three is parsed from its first three fields, so it yields a
\* record exactly when the same line cut to three fields does.
C5_AtLeastThreeFields ==
  FirstLineMapped =>
    LET L == fileLines[1]
        three == Render([L EXCEPT !.nFields = 3])
    IN /\ L.nFields < 3 => pc = "panicked"
       /\ L.nFields > 3 =>
            /\ (pc = "panicked") = FailsToParse(L)
            /\ pc = "filter" => item[1] = ParseLine(three).b

\* The map closure has returned a record for a line of four comma fields.
C5_Witness ==
  /\ pc = "filter"
  /\ FirstLineMapped
  /\ fileLines[1].nFields = 4
  /\ item # <<>>

\* C6: on a line of three comma fields and two name tokens, a runs field
\* that is no u32 aborts the run with the message about the second item; a
\* valid runs field with an average field that is no number aborts it with
\* the message about the third item; with both invalid the message is the
\* one about the second item.
C6_NumericDiagnostics ==
  LET L == fileLines[1] IN
  (FirstLineMapped /\ L.nFields >= 3 /\ Len(L.tokens) >= 2) =>
    /\ ~L.runs.ok =>
         pc = "panicked" /\ diag = "Expected second item to be an u32"
    /\ (L.runs.ok /\ L.average.kind = "bad") =>
         pc = "panicked" /\ diag = "Expected third item to be an f32"

\* The run has panicked about the second item on a line whose runs and
\* average fields are both invalid.
C6_Witness ==
  /\ FirstLineMapped
  /\ pc = "panicked"
  /\ fileLines[1].nFields = 3
  /\ Len(fileLines[1].tokens) = 2
  /\ ~fileLines[1].runs.ok
  /\ fileLines[1].average.kind = "bad"
  /\ diag = DiagRuns

\* C7: for a file of well-formed lines, what is printed is the records of
\* the lines whose surname starts with 'C', each once, by descending runs,
\* records of equal runs in the order of their lines; for Clarke 120,
\* Smith 80, Cook 150, Cullen 150 it is Cook, Cullen, Clarke.
C7_PrintedIsFilteredAndSorted ==
  (pc = "done" /\ AllValid(fileLines)) =>
    LET KeepC(b) == FirstIsC(b.surname)
        kept == SelectSeq([i \in 1..Len(fileLines) |-> Written(fileLines[i])], KeepC)
    IN /\ stdout = <<ByRank(kept)>>
       /\ fileLines = ExampleFile =>
            stdout = <<(<<Written(Cook), Written(Cullen), Written(Clarke)>>)>>

\* The run on the file of the scenario has printed.
C7_Witness ==
  /\ pc = "done"
  /\ fileLines = ExampleFile
  /\ Len(stdout[1]) = 3

\* The records the run holds.
Records == {collected[i] : i \in 1..Len(collected)} \cup {item[i] : i \in 1..Len(item)}

\* C8: two records are equal exactly when initials, surname and runs are
\* the same and the averages are equal within the relative tolerance; so
\* equality is reflexive, symmetric and transitive, and records of equal
\* runs with different names are unequal although cmp says Equal.
C8_EqIsEquivalence ==
  \A a, b, c \in Records :
    /\ Eq(a, b) = (/\ a.initials = b.initials
                   /\ a.surname = b.surname
                   /\ a.runs = b.runs
                   /\ RelativeEq(a.average, b.average))
    /\ Eq(a, a)
    /\ Eq(a, b) => Eq(b, a)
    /\ (Eq(a, b) /\ Eq(b, c)) => Eq(a, c)
    /\ (a.runs = b.runs /\ a.surname # b.surname) => (~Eq(a, b) /\ Cmp(a, b) = "Equal")

\* C9 as stated: the stored average of every valid line is the integer
\* nearest to the number written in the third field.
C9_NearestToWritten ==
  (item # <<>> /\ fileLines[1].average.kind = "dec") =>
    item[1].average = NumAvg(NearestInteger(fileLines[1].average))

\* C9: the stored average is the f32 nearest to the written number, rounded
\* to the nearest integer with a half away from zero; for a number of at
\* most two fractional digits and magnitude below 2^18 that is the integer
\* nearest to the written number (2.4 gives 2, 2.5 gives 3).
C9_RoundedNotTruncated ==
  LET a == fileLines[1].average IN
  (item # <<>> /\ a.kind = "dec" /\ a.d <= 100 /\ a.n < a.d * Pow2(18)) =>
    item[1].average = NumAvg(NearestInteger(a))

\* The map closure has stored 3 for a line whose third field is "2.5".
C9_Witness ==
  /\ item # <<>>
  /\ fileLines[1].average.text = <<"2", ".", "5">>
  /\ item[1].average = NumAvg(3)

\* C10: for a file of n well-formed lines the parser is handed n lines, the
\* lines as written, with or without a terminator after the last: a final
\* terminator gives no empty line, so no extra record and no abort.
C10_TrailingNewlineNoExtraLine ==
  (pc # "read" /\ AllValid(fileLines)) =>
    /\ Len(lines) = Len(fileLines)
    /\ \A i \in 1..Len(lines) : lines[i] = Render(fileLines[i])
    /\ pc # "panicked"
    /\ pc = "done" => Len(stdout[1]) <= Len(fileLines)

\* A run on two or more well-formed lines ending in "\r\n" has printed.
C10_Witness ==
  /\ pc = "done"
  /\ trailing
  /\ terminator = <<CR, LF>>
  /\ Len(fileLines) >= 2
  /\ AllValid(fileLines)
  /\ stdout # <<>>

====
